---------------------------- MODULE Spec2Model ----------------------------
(***************************************************************************)
(* Model of the local-first ledger (app.js, two variants in one file):     *)
(*   legacy  - store 'expenses' + 'meta' income scalar   (lines 1-400)     *)
(*   unified - store 'transactions' with a type field    (lines 402-689)   *)
(* The event handlers are async functions.  Each runs synchronously up to  *)
(* an await of an IndexedDB request; the request stays in `pending` until  *)
(* the database completes it, and the completion runs the handler's        *)
(* continuation to its next await (or to its end) in one step.             *)
(*                                                                         *)
(* Dates are ISO 'YYYY-MM-DD' strings in the code and are only compared    *)
(* with localeCompare; they are modelled by their day ordinal (an integer  *)
(* order-isomorphic to the zero-padded string), 0 standing for the empty   *)
(* input value.                                                            *)
(* The DOM is outside the source given: any bound handler may be invoked   *)
(* at any moment (edit/delete for the records shown in the rendered list). *)
(***************************************************************************)
EXTENDS Integers, Sequences, FiniteSets, TLC

VARIABLES variant,     \* which app.js is running: "legacy" | "unified"
          txStore,     \* object store 'transactions' / 'expenses': set of records
          attStore,    \* object store 'attachments': set of records
          metaIncome,  \* object store 'meta', key 'income' (legacy); 0 = no entry
          txKeyGen,    \* key generator of the record store (autoIncrement)
          attKeyGen,   \* key generator of the attachment store
          mirror,      \* state.txs / state.expenses
          income,      \* state.income (legacy)
          editId,      \* state.editId, 0 = null
          view,        \* what computeAndRender last put on the page
          pending,     \* IndexedDB requests issued and not yet completed, oldest first
          last,        \* the last handler step taken and how it ended
          clock,       \* new Date(): the local wall-clock time, [day, ms]
          tz,          \* offset of the local zone from UTC, in hours
          idb,         \* the origin's IndexedDB databases: version and object stores
          shelved,     \* the records of the database the running app.js does not open
          info,        \* the info panel: its lists, #lastUpdate, refreshes in flight
          blobs        \* the page's blob URLs and the timers set to revoke them

vars == <<variant, txStore, attStore, metaIncome, txKeyGen, attKeyGen,
          mirror, income, editId, view, pending, last, clock, tz,
          idb, shelved, info, blobs>>

stores == <<txStore, attStore, metaIncome, txKeyGen, attKeyGen>>

(* what no handler of the ledger assigns *)
outer == <<variant, clock, tz, idb, shelved, info, blobs>>

---------------------------------------------------------------------------
(* Bounds of the model *)
MaxTx      == 2   \* records ever inserted
MaxAtt     == 2   \* attachments ever inserted
MaxPending == 2   \* requests in flight at once
MaxDate    == 1   \* date inputs 1..MaxDate; today is MaxDate + 1

Today    == MaxDate + 1
NoDate   == 0
NoFile   == "none"
NoType   == "undefined"          \* a record without the type field
Types    == {"expense", "income"}
Undefined == [id |-> 0, attachments |-> <<>>]   \* result of get() for a missing key

(* input.value of the name input, as typed *)
RawNames == { <<" ">>, <<" ", "a">> }
(* input.value of a number input: a decimal in tenths, or a non-number *)
NaN == [k |-> "nan", tenths |-> 0]
Num(tenths) == [k |-> "num", tenths |-> tenths]
RawAmounts == { NaN, Num(-10), Num(0), Num(4), Num(5) }
RawDates == 0 .. MaxDate
Files(kind) == { NoFile, kind }

(* submissions of the ledger scenarios: well-formed input, no files *)
LedgerForms == [type : Types, name : { <<" ", "a">> }, amount : { Num(15) },
                date : RawDates, photo : { NoFile }, doc : { NoFile }]
LedgerIncomes == { NaN, Num(15) }

(* submissions of the attachment scenarios: well-formed input, with or without files *)
AttachForms == [type : { "expense" }, name : { <<" ", "a">> }, amount : { Num(15) },
                date : { NoDate }, photo : Files("photo"), doc : Files("document")]

(* submissions of the validation scenarios: any name and amount, with or without a photo *)
InputForms == [type : { "expense" }, name : RawNames, amount : RawAmounts,
               date : { NoDate }, photo : Files("photo"), doc : { NoFile }]

---------------------------------------------------------------------------
(* Utils *)

RECURSIVE TrimStart(_)
TrimStart(s) == IF s # <<>> /\ Head(s) = " " THEN TrimStart(Tail(s)) ELSE s

RECURSIVE TrimEnd(_)
TrimEnd(s) == IF s # <<>> /\ s[Len(s)] = " " THEN TrimEnd(SubSeq(s, 1, Len(s) - 1)) ELSE s

(* the name taken as typed, .trim() forgotten *)
TrimNone(s) == s

(* String.prototype.trim *)
Trim(s) == TrimEnd(TrimStart(s))

(* Math.round of tenths/10 for a finite value: floor(x + 0.5) *)
MathRound(tenths) == (tenths + 5) \div 10

(* parseAmount(input) *)
parseAmount(input) ==
    IF input.k = "num" /\ input.tenths >= 0 THEN MathRound(input.tenths) ELSE 0

(* $('#date').value || todayStr() *)
DateOrToday(d) == IF d = NoDate THEN Today ELSE d

(* Date.now(): a logical clock, the number of inserts completed so far *)
DateNow == (txKeyGen - 1) + (attKeyGen - 1)

(* the comparator (a, b) => b.date.localeCompare(a.date) || b.id - a.id
   is negative, i.e. a goes before b *)
Before(a, b) == a.date > b.date \/ (a.date = b.date /\ a.id > b.id)

RECURSIVE InsertSorted(_, _)
InsertSorted(r, s) ==
    IF s = <<>> THEN <<r>>
    ELSE IF Before(Head(s), r) THEN <<Head(s)>> \o InsertSorted(r, Tail(s))
    ELSE <<r>> \o s

RECURSIVE SortDesc(_)
(* Array.prototype.sort with the comparator above *)
SortDesc(s) == IF s = <<>> THEN <<>> ELSE InsertSorted(Head(s), SortDesc(Tail(s)))

RECURSIVE SumWhere(_, _)
(* txs.filter(t => t.type === ty).reduce((s, t) => s + t.amount, 0) *)
SumWhere(s, ty) ==
    IF s = <<>> THEN 0
    ELSE (IF Head(s).type = ty THEN Head(s).amount ELSE 0) + SumWhere(Tail(s), ty)

RECURSIVE SumAll(_)
(* expenses.reduce((s, e) => s + e.amount, 0) *)
SumAll(s) == IF s = <<>> THEN 0 ELSE Head(s).amount + SumAll(Tail(s))

Min(a, b) == IF a < b THEN a ELSE b
Max(a, b) == IF a > b THEN a ELSE b

(* the ratio without Math.min(100, ...) *)
RatioUnclamped(spent, inc) ==
    IF inc > 0 THEN (200 * spent + inc) \div (2 * inc) ELSE 0

(* Math.min(100, Math.round((spent / inc) * 100)) guarded by inc > 0 *)
Ratio(spent, inc) ==
    IF inc > 0 THEN Min(100, (200 * spent + inc) \div (2 * inc)) ELSE 0

(* the unified balance with the legacy clamp Math.max(0, ...) kept *)
computeUnifiedClamped(txs) ==
    LET incomeSum  == SumWhere(txs, "income")
        expenseSum == SumWhere(txs, "expense")
    IN  [income |-> incomeSum, spent |-> expenseSum,
         available |-> Max(0, incomeSum - expenseSum),
         ratio |-> Ratio(expenseSum, incomeSum)]

(* computeAndRender, unified: balance part *)
computeUnified(txs) ==
    LET incomeSum  == SumWhere(txs, "income")
        expenseSum == SumWhere(txs, "expense")
    IN  [income |-> incomeSum, spent |-> expenseSum,
         available |-> incomeSum - expenseSum,
         ratio |-> Ratio(expenseSum, incomeSum)]

(* computeAndRender, legacy: balance part *)
computeLegacy(expenses, inc) ==
    LET totalSpent == SumAll(expenses)
    IN  [income |-> inc, spent |-> totalSpent,
         available |-> Max(0, inc - totalSpent),
         ratio |-> Ratio(totalSpent, inc)]

Ids(S) == { r.id : r \in S }
SeqIds(s) == { s[i].id : i \in 1 .. Len(s) }

---------------------------------------------------------------------------
(* Date: a Date object is modelled by its local wall-clock reading
   [day, ms], day counted from 1970-01-01 and ms from local midnight, in a
   zone with a fixed offset tz.  A date string 'YYYY-MM-DD' is modelled by
   its day number.  Year, month and day follow ECMAScript's DayFromYear /
   MakeDay, so months are 0-based and a day or month out of range carries
   over. *)

MsPerHour == 60 * 60 * 1000
MsPerDay  == 24 * MsPerHour
Years == {1970} \cup (2023 .. 2025)

IsLeap(y) == (y % 4 = 0 /\ y % 100 # 0) \/ y % 400 = 0

DaysInMonth(y, m) ==
    CASE m \in {0, 2, 4, 6, 7, 9, 11} -> 31
      [] m \in {3, 5, 8, 10}          -> 30
      [] OTHER                        -> IF IsLeap(y) THEN 29 ELSE 28

DayFromYear(y) ==
    365 * (y - 1970) + ((y - 1969) \div 4) - ((y - 1901) \div 100) + ((y - 1601) \div 400)

(* days of the year before the month m (0-based; 12 gives the whole year) *)
DaysBeforeMonth(y, m) ==
    <<0, 31, 59, 90, 120, 151, 181, 212, 243, 273, 304, 334, 365>>[m + 1]
        + (IF m >= 2 /\ IsLeap(y) THEN 1 ELSE 0)

(* MakeDay(year, month, date) *)
MakeDay(y, m, dt) ==
    LET ym == y + (m \div 12)
        mn == m % 12
    IN  DayFromYear(ym) + DaysBeforeMonth(ym, mn) + dt - 1

getFullYear(d) ==
    CHOOSE y \in Years : DayFromYear(y) <= d.day /\ d.day < DayFromYear(y + 1)

getMonth(d) ==
    LET y  == getFullYear(d)
        dy == d.day - DayFromYear(y)
    IN  CHOOSE m \in 0 .. 11 : DaysBeforeMonth(y, m) <= dy /\ dy < DaysBeforeMonth(y, m + 1)

getDate(d) == d.day - MakeDay(getFullYear(d), getMonth(d), 1) + 1

(* new Date(y, m, dt, h, mi, s, ms), the time of day given in ms *)
NewDate(y, m, dt, ms) == [day |-> MakeDay(y, m, dt), ms |-> ms]

(* setDate(dt) *)
setDate(d, dt) == [d EXCEPT !.day = MakeDay(getFullYear(d), getMonth(d), dt)]

endOfDay(d)   == [d EXCEPT !.ms = MsPerDay - 1]
startOfDay(d) == [d EXCEPT !.ms = 0]

(* new Date('YYYY-MM-DD'): the date-only form is midnight UTC, read here on
   the local clock *)
ParseISO(date) ==
    IF tz >= 0 THEN [day |-> date, ms |-> tz * MsPerHour]
    ELSE [day |-> date - 1, ms |-> MsPerDay + tz * MsPerHour]

(* a <= b on Date objects *)
Leq(a, b) == a.day < b.day \/ (a.day = b.day /\ a.ms <= b.ms)

(* within(dateISO, start, end) *)
within(dateISO, start, end) ==
    LET t == ParseISO(dateISO) IN Leq(start, t) /\ Leq(t, end)

(* the last day of the month taken as day 31 of it *)
LastOfMonthNaive(y, m) == NewDate(y, m, 31, MsPerDay - 1)

(* new Date(y, m + 1, 0, 23,59,59,999) *)
LastOfMonth(y, m) == NewDate(y, m + 1, 0, MsPerDay - 1)

(* const weekStart = new Date(weekEnd); setDate(getDate() - 6); setHours(0,0,0,0) *)
WeekRange ==
    LET weekEnd == endOfDay(clock)
    IN  [start |-> startOfDay(setDate(weekEnd, getDate(weekEnd) - 6)), end |-> weekEnd]

FortnightRange ==
    LET y == getFullYear(clock)
        m == getMonth(clock)
        d == getDate(clock)
    IN  IF d <= 15
        THEN [start |-> NewDate(y, m, 1, 0), end |-> NewDate(y, m, 15, MsPerDay - 1)]
        ELSE [start |-> NewDate(y, m, 16, 0), end |-> LastOfMonth(y, m)]

MonthRange ==
    LET y == getFullYear(clock)
        m == getMonth(clock)
    IN  [start |-> NewDate(y, m, 1, 0), end |-> LastOfMonth(y, m)]

TodayRange == [start |-> startOfDay(clock), end |-> endOfDay(clock)]

(* ranges() *)
ranges ==
    [today     |-> TodayRange,
     week      |-> WeekRange,
     fortnight |-> FortnightRange,
     month     |-> MonthRange]

(* getPeriodRange(kind) *)
getPeriodRange(kind) ==
    CASE kind = "week"      -> WeekRange
      [] kind = "fortnight" -> FortnightRange
      [] kind = "month"     -> MonthRange
      [] OTHER              -> [start |-> NewDate(1970, 0, 1, 0), end |-> endOfDay(clock)]

RECURSIVE sumRange(_, _)
(* txs.filter(t => t.type === 'expense' && within(t.date, rg.start, rg.end))
      .reduce((s, t) => s + t.amount, 0) *)
sumRange(txs, rg) ==
    IF txs = <<>> THEN 0
    ELSE (IF Head(txs).type = "expense" /\ within(Head(txs).date, rg.start, rg.end)
          THEN Head(txs).amount ELSE 0) + sumRange(Tail(txs), rg)


(* what a record adds to the bar of its date: unified line 483, legacy line 107 *)
BarAmount(t) ==
    IF variant = "unified" THEN (IF t.type = "expense" THEN t.amount ELSE 0) ELSE t.amount

RECURSIVE MapSetAll(_, _)
(* for (const t of txs) map.set(t.date, (map.get(t.date) || 0) + ...) *)
MapSetAll(txs, map) ==
    IF txs = <<>> THEN map
    ELSE LET t == Head(txs)
             k == t.date
             v == (IF k \in DOMAIN map THEN map[k] ELSE 0) + BarAmount(t)
         IN  MapSetAll(Tail(txs), [x \in DOMAIN map \cup {k} |-> IF x = k THEN v ELSE map[x]])

RECURSIVE KeysAsc(_)
KeysAsc(D) ==
    IF D = {} THEN <<>>
    ELSE LET d == CHOOSE x \in D : \A y \in D : x <= y IN <<d>> \o KeysAsc(D \ {d})

(* groupByDate(txs): Array.from(map.entries()).sort by date ascending *)
groupByDate(txs) ==
    LET map  == MapSetAll(txs, <<>>)
        keys == KeysAsc(DOMAIN map)
    IN  [j \in 1 .. Len(keys) |-> <<keys[j], map[keys[j]]>>]

ChartPoints == 14

(* byDate.slice(-14) *)
Last14(byDate) ==
    IF Len(byDate) <= ChartPoints THEN byDate
    ELSE SubSeq(byDate, Len(byDate) - ChartPoints + 1, Len(byDate))

RECURSIVE MaxValue(_)
(* Math.max(1, ...values) over the values of byDate *)
MaxValue(byDate) ==
    IF byDate = <<>> THEN 1 ELSE Max(Head(byDate)[2], MaxValue(Tail(byDate)))

(* Math.round(a / b) for a >= 0, b > 0: the nearest integer, halves up *)
RoundDiv(a, b) == (2 * a + b) \div (2 * b)

MinBar == 4

(* Math.max(4, Math.round((v / max) * 100)) *)
BarHeight(v, max) == Max(MinBar, RoundDiv(v * 100, max))

(* the bars appended to #chartBars: one per point shown, scaled by the maximum
   over byDate *)
Bars(byDate, shown) ==
    LET max == MaxValue(byDate)
    IN  [j \in 1 .. Len(shown) |-> BarHeight(shown[j][2], max)]

(* renderMiniChart: unified lines 554-568 (max over byDate, bars for
   byDate.slice(-14)), legacy lines 172-184 (bars for all of byDate) *)
renderMiniChart(txs) ==
    CHOOSE bars \in { IF variant = "unified" THEN Bars(byDate, Last14(byDate))
                                            ELSE Bars(byDate, byDate)
                      : byDate \in { groupByDate(txs) } } : TRUE

(* computeAndRender, unified: statistics and chart (const r = ranges(), taken once) *)
statsUnified(txs) ==
    CHOOSE s \in { [r |-> r,
                    today     |-> sumRange(txs, r.today),
                    week      |-> sumRange(txs, r.week),
                    fortnight |-> sumRange(txs, r.fortnight),
                    month     |-> sumRange(txs, r.month),
                    chart     |-> Last14(byDate),
                    bars      |-> renderMiniChart(txs)]
                   : r \in { ranges }, byDate \in { groupByDate(txs) } } : TRUE

(* state.period: the selection the page starts with *)
Period == "week"

(* computeAndRender, legacy: statistics of the selected period and chart *)
statsLegacy(expenses) ==
    LET Stats(rg, filtered) ==
            LET spent == SumAll(filtered)
                span  == (rg.end.day - rg.start.day) * MsPerDay + rg.end.ms - rg.start.ms
                days  == Max(1, ((span + MsPerDay - 1) \div MsPerDay) + 1)
            IN  [r |-> rg, periodTotal |-> spent,
                 periodAvg |-> (2 * spent + days) \div (2 * days),
                 periodCount |-> Len(filtered),
                 chart |-> groupByDate(filtered),
                 bars  |-> renderMiniChart(filtered)]
        Filtered(rg) == SelectSeq(expenses, LAMBDA e : within(e.date, rg.start, rg.end))
    IN  CHOOSE s \in UNION { { Stats(rg, filtered) : filtered \in { Filtered(rg) } }
                             : rg \in { getPeriodRange(Period) } } : TRUE

computeAndRender(m, inc) ==
    CHOOSE page \in { IF variant = "unified" THEN computeUnified(txs) @@ statsUnified(txs)
                      ELSE computeLegacy(txs, inc) @@ statsLegacy(txs)
                      : txs \in { m } } : TRUE

---------------------------------------------------------------------------
(* IndexedDB: the dbp wrapper and the object stores *)

(* a key derived from the records present: one past the largest id in the store *)
NextTxKeyReused ==
    IF txStore = {} THEN 1
    ELSE (CHOOSE k \in Ids(txStore) : \A j \in Ids(txStore) : j <= k) + 1

(* key the generator of an autoIncrement store hands to the next add *)
NextTxKey  == txKeyGen
NextAttKey == attKeyGen

(* objectStore('transactions').add(value): the store injects the key at keyPath 'id' *)
TxAdded(value, key) ==
    txStore \cup { [id |-> key, type |-> value.type, name |-> value.name,
                    amount |-> value.amount, date |-> value.date,
                    attachments |-> value.attachments, created |-> value.created] }

(* objectStore('attachments').add(value) *)
AttAdded(value, key) ==
    attStore \cup { [id |-> key, blob |-> value.blob, created |-> value.created] }

(* objectStore.put(value): replaces the record stored under value.id, or inserts it *)
TxPut(value) == { r \in txStore : r.id # value.id } \cup { value }

(* objectStore.get(key): the record, or undefined *)
TxGet(key) ==
    IF key \in Ids(txStore) THEN CHOOSE r \in txStore : r.id = key ELSE Undefined

(* objectStore.delete(key): succeeds whether or not the key exists *)
TxDeleted(key) == { r \in txStore : r.id # key }

(* put with an explicit key moves the generator past it *)
KeyGenAfterPut(value) == Max(txKeyGen, value.id + 1)

ReadOnly(req) == req.op \in {"get", "getAll"}

(* Transactions with overlapping scope run in the order they were created,
   except that read-only ones may run side by side. *)
CanComplete(i) ==
    \A j \in 1 .. (i - 1) :
        \/ pending[j].store # pending[i].store
        \/ (ReadOnly(pending[j]) /\ ReadOnly(pending[i]))

Without(i) == SubSeq(pending, 1, i - 1) \o SubSeq(pending, i + 1, Len(pending))

NoLoc == [type |-> NoType, name |-> <<>>, amount |-> 0, date |-> 0,
          photo |-> NoFile, doc |-> NoFile, refs |-> <<>>, tx |-> Undefined]

Request(store, op, key, value, fn, pc, loc) ==
    [store |-> store, op |-> op, key |-> key, value |-> value,
     fn |-> fn, pc |-> pc, loc |-> loc]

(* the step a handler just took: how it ended, the record id it was about and
   the number of receipts involved (files submitted, refs of the record removed) *)
Step(fn, res, id, n) == [fn |-> fn, res |-> res, id |-> id, n |-> n]

(* a handler reached an await: nothing of it is visible yet *)
Awaiting == Step("", "await", 0, 0)

HasFiles(f) == f.photo # NoFile \/ f.doc # NoFile
NumFiles(f) == (IF f.photo # NoFile THEN 1 ELSE 0) + (IF f.doc # NoFile THEN 1 ELSE 0)

(* attachment inserts the handler behind a pending request has still to make *)
FilesLeft(req) ==
    CASE req.pc = "photo" -> 1 + (IF req.loc.doc # NoFile THEN 1 ELSE 0)
      [] req.pc = "doc"   -> 1
      [] req.pc = "get"   -> NumFiles(req.loc)
      [] OTHER            -> 0

RECURSIVE SumFilesLeft(_)
SumFilesLeft(q) == IF q = <<>> THEN 0 ELSE FilesLeft(Head(q)) + SumFilesLeft(Tail(q))

AddFns == {"onAddTx", "onAddExpense"}
NumAdding == Cardinality({ i \in 1 .. Len(pending) : pending[i].fn \in AddFns })

Room == Len(pending) < MaxPending
TxBudget == (txKeyGen - 1) + NumAdding < MaxTx
AttBudget(n) == (attKeyGen - 1) + SumFilesLeft(pending) + n <= MaxAtt

---------------------------------------------------------------------------
(* Create: onAddTx (unified) / onAddExpense (legacy) *)

(* the check with amount < 0 in place of amount <= 0 *)
ValidAllowZero(name, amount) == name # <<>> /\ amount >= 0

(* if (!name || amount <= 0) return; *)
Valid(name, amount) == name # <<>> /\ amount > 0

AttRequest(fn, pc, file, loc, now) ==
    Request("attachments", "add", 0, [blob |-> file, created |-> now], fn, pc, loc)

(* const tx = { type, name, amount, date, attachments: attachmentRefs, created: Date.now() };
   dbp.add('transactions', tx) *)
TxRequest(fn, loc, now) ==
    Request("records", "add", 0,
            [type |-> loc.type, name |-> loc.name, amount |-> loc.amount,
             date |-> loc.date, attachments |-> loc.refs, created |-> now],
            fn, "tx", loc)

(* the request the create handler awaits next, photo and document already handled or not *)
AddNext(fn, loc, photoDone, docDone, now) ==
    IF ~photoDone /\ loc.photo # NoFile THEN AttRequest(fn, "photo", loc.photo, loc, now)
    ELSE IF ~docDone /\ loc.doc # NoFile THEN AttRequest(fn, "doc", loc.doc, loc, now)
    ELSE TxRequest(fn, loc, now)

(* a ref that names the key after the one the insert returned *)
PushRefNextKey(loc, id, kind) ==
    [loc EXCEPT !.refs = Append(@, [storeId |-> id + 1, kind |-> kind])]

(* attachmentRefs.push({ storeId: id, kind, ... }) *)
PushRef(loc, id, kind) ==
    [loc EXCEPT !.refs = Append(@, [storeId |-> id, kind |-> kind])]

onAdd(fn, ty, f) ==
    LET name   == Trim(f.name)
        amount == parseAmount(f.amount)
        date   == DateOrToday(f.date)
        loc    == [type |-> ty, name |-> name, amount |-> amount, date |-> date,
                   photo |-> f.photo, doc |-> f.doc, refs |-> <<>>, tx |-> Undefined]
    IN  IF ~Valid(name, amount)
        THEN /\ last' = Step(fn, "rejected", 0, NumFiles(f))
             /\ UNCHANGED <<outer, stores, mirror, income, editId, view, pending>>
        ELSE /\ Room /\ TxBudget /\ AttBudget(NumFiles(f))
             /\ pending' = Append(pending, AddNext(fn, loc, FALSE, FALSE, DateNow))
             /\ last' = Awaiting
             /\ UNCHANGED <<outer, stores, mirror, income, editId, view>>

onAddTx(f) == variant = "unified" /\ onAdd("onAddTx", f.type, f)

onAddExpense(f) == variant = "legacy" /\ f.type = "expense" /\ onAdd("onAddExpense", NoType, f)

(* the photo insert succeeded *)
onAddPhotoDone(i) ==
    LET req == pending[i]
        id  == NextAttKey
        loc == PushRef(req.loc, id, "photo")
    IN  /\ req.fn \in AddFns /\ req.pc = "photo" /\ CanComplete(i)
        /\ attStore' = AttAdded(req.value, id)
        /\ attKeyGen' = attKeyGen + 1
        /\ pending' = Append(Without(i), AddNext(req.fn, loc, TRUE, FALSE, DateNow + 1))
        /\ last' = Awaiting
        /\ UNCHANGED <<outer, txStore, metaIncome, txKeyGen, mirror, income, editId, view>>

(* the document insert succeeded *)
onAddDocDone(i) ==
    LET req == pending[i]
        id  == NextAttKey
        loc == PushRef(req.loc, id, "document")
    IN  /\ req.fn \in AddFns /\ req.pc = "doc" /\ CanComplete(i)
        /\ attStore' = AttAdded(req.value, id)
        /\ attKeyGen' = attKeyGen + 1
        /\ pending' = Append(Without(i), AddNext(req.fn, loc, TRUE, TRUE, DateNow + 1))
        /\ last' = Awaiting
        /\ UNCHANGED <<outer, txStore, metaIncome, txKeyGen, mirror, income, editId, view>>

(* tx.id = id; state.txs.unshift(tx) *)
Unshift(tx, m) == <<tx>> \o m

(* the record insert succeeded: tx.id = id; unshift; form reset; computeAndRender() *)
onAddTxDone(i) ==
    LET req == pending[i]
        id  == NextTxKey
        v   == req.value
        tx  == [id |-> id, type |-> v.type, name |-> v.name, amount |-> v.amount,
                date |-> v.date, attachments |-> v.attachments, created |-> v.created]
        m   == Unshift(tx, mirror)
    IN  /\ req.fn \in AddFns /\ req.pc = "tx" /\ CanComplete(i)
        /\ txStore' = TxAdded(v, id)
        /\ txKeyGen' = txKeyGen + 1
        /\ mirror' = m
        /\ view' = computeAndRender(m, income)
        /\ pending' = Without(i)
        /\ last' = Step(req.fn, "ok", id, 0)
        /\ UNCHANGED <<outer, attStore, metaIncome, attKeyGen, income, editId>>

---------------------------------------------------------------------------
(* Edit: openEditDialog, updateTx (unified) / updateExpense (legacy) *)

UpdateFns == {"updateTx", "updateExpense"}

(* openEditDialog(t) for a record t of the rendered list *)
openEditDialog(id) ==
    /\ id \in SeqIds(mirror)
    /\ editId' = id
    /\ last' = Step("openEditDialog", "ok", 0, 0)
    /\ UNCHANGED <<outer, stores, mirror, income, view, pending>>

(* dbp.get(store, state.editId) *)
GetRequest(fn, key, loc) == Request("records", "get", key, Undefined, fn, "get", loc)

(* dbp.put(store, tx) *)
PutRequest(fn, tx, loc) == Request("records", "put", tx.id, tx, fn, "put", loc)

(* the guard with the test of state.editId dropped *)
NoEditNever(id) == FALSE

(* if (!state.editId) return; *)
NoEdit(id) == id = 0

onUpdate(fn, ty, f) ==
    LET name   == Trim(f.name)
        amount == parseAmount(f.amount)
        date   == DateOrToday(f.date)
        loc    == [type |-> ty, name |-> name, amount |-> amount, date |-> date,
                   photo |-> f.photo, doc |-> f.doc, refs |-> <<>>, tx |-> Undefined]
    IN  IF NoEdit(editId)
        THEN /\ last' = Step(fn, "noedit", 0, 0)
             /\ UNCHANGED <<outer, stores, mirror, income, editId, view, pending>>
        ELSE IF ~Valid(name, amount)
        THEN /\ last' = Step(fn, "rejected", 0, NumFiles(f))
             /\ UNCHANGED <<outer, stores, mirror, income, editId, view, pending>>
        ELSE /\ Room /\ AttBudget(NumFiles(f))
             /\ pending' = Append(pending, GetRequest(fn, editId, loc))
             /\ last' = Awaiting
             /\ UNCHANGED <<outer, stores, mirror, income, editId, view>>

updateTx(f) == variant = "unified" /\ onUpdate("updateTx", f.type, f)

updateExpense(f) ==
    /\ variant = "legacy" /\ f.type = "expense" /\ ~HasFiles(f)
    /\ onUpdate("updateExpense", NoType, f)

(* tx.type = type; tx.name = name; tx.amount = amount; tx.date = date; *)
AssignTx(r, loc) ==
    [r EXCEPT !.type = loc.type, !.name = loc.name, !.amount = loc.amount, !.date = loc.date]

(* e.name = name; e.amount = amount; e.date = date; *)
AssignExpense(r, loc) ==
    [r EXCEPT !.name = loc.name, !.amount = loc.amount, !.date = loc.date]

(* replacement of the attachment list when new files were supplied *)
ReplaceRefs(tx, refs) == [tx EXCEPT !.attachments = refs]

(* what updateTx awaits after the record is loaded, new files handled or not *)
UpdateNext(loc, photoDone, docDone, now) ==
    IF ~photoDone /\ loc.photo # NoFile THEN AttRequest("updateTx", "photo", loc.photo, loc, now)
    ELSE IF ~docDone /\ loc.doc # NoFile THEN AttRequest("updateTx", "doc", loc.doc, loc, now)
    ELSE PutRequest("updateTx",
                    IF loc.refs # <<>> THEN ReplaceRefs(loc.tx, loc.refs) ELSE loc.tx, loc)

(* the get completed; on undefined the first field assignment throws a TypeError *)
updateGetDone(i) ==
    LET req == pending[i]
        r   == TxGet(req.key)
    IN  /\ req.fn \in UpdateFns /\ req.pc = "get" /\ CanComplete(i)
        /\ IF r = Undefined
           THEN /\ pending' = Without(i)
                /\ last' = Step(req.fn, "TypeError", req.key, 0)
           ELSE /\ pending' = Append(Without(i),
                       IF req.fn = "updateTx"
                       THEN UpdateNext([req.loc EXCEPT !.tx = AssignTx(r, req.loc)],
                                       FALSE, FALSE, DateNow)
                       ELSE PutRequest(req.fn, AssignExpense(r, req.loc), req.loc))
                /\ last' = Awaiting
        /\ UNCHANGED <<outer, stores, mirror, income, editId, view>>

(* updateTx: the insert of a new photo succeeded *)
updatePhotoDone(i) ==
    LET req == pending[i]
        id  == NextAttKey
        loc == PushRef(req.loc, id, "photo")
    IN  /\ req.fn = "updateTx" /\ req.pc = "photo" /\ CanComplete(i)
        /\ attStore' = AttAdded(req.value, id)
        /\ attKeyGen' = attKeyGen + 1
        /\ pending' = Append(Without(i), UpdateNext(loc, TRUE, FALSE, DateNow + 1))
        /\ last' = Awaiting
        /\ UNCHANGED <<outer, txStore, metaIncome, txKeyGen, mirror, income, editId, view>>

(* updateTx: the insert of a new document succeeded *)
updateDocDone(i) ==
    LET req == pending[i]
        id  == NextAttKey
        loc == PushRef(req.loc, id, "document")
    IN  /\ req.fn = "updateTx" /\ req.pc = "doc" /\ CanComplete(i)
        /\ attStore' = AttAdded(req.value, id)
        /\ attKeyGen' = attKeyGen + 1
        /\ pending' = Append(Without(i), UpdateNext(loc, TRUE, TRUE, DateNow + 1))
        /\ last' = Awaiting
        /\ UNCHANGED <<outer, txStore, metaIncome, txKeyGen, mirror, income, editId, view>>

(* const idx = state.expenses.findIndex(x => x.id === e.id); state.expenses[idx] = e;
   with idx = -1 the assignment sets the property "-1", which is no element of the
   array: length, iteration, filter, reduce and sort do not see it *)
ReplaceInMirror(m, e) ==
    IF e.id \in SeqIds(m)
    THEN [m EXCEPT ![CHOOSE k \in 1 .. Len(m) :
                        m[k].id = e.id /\ \A j \in 1 .. (k - 1) : m[j].id # e.id] = e]
    ELSE m

(* the put succeeded: replace in the mirror, sort, close the dialog, computeAndRender() *)
updatePutDone(i) ==
    LET req == pending[i]
        m   == SortDesc(ReplaceInMirror(mirror, req.value))
    IN  /\ req.fn \in UpdateFns /\ req.pc = "put" /\ CanComplete(i)
        /\ txStore' = TxPut(req.value)
        /\ txKeyGen' = KeyGenAfterPut(req.value)
        /\ mirror' = m
        /\ view' = computeAndRender(m, income)
        /\ pending' = Without(i)
        /\ last' = Step(req.fn, "ok", req.key, 0)
        /\ UNCHANGED <<outer, attStore, metaIncome, attKeyGen, income, editId>>

---------------------------------------------------------------------------
(* Delete: deleteTx (unified) / deleteExpense (legacy) *)

DeleteFn == IF variant = "unified" THEN "deleteTx" ELSE "deleteExpense"

(* the record taken off the page before the delete is awaited *)
deleteExpenseEager(id) ==
    /\ id \in SeqIds(mirror)
    /\ Room
    /\ pending' = Append(pending, Request("records", "delete", id, Undefined,
                                          DeleteFn, "delete", NoLoc))
    /\ mirror' = SelectSeq(mirror, LAMBDA e : e.id # id)
    /\ view' = computeAndRender(mirror', income)
    /\ last' = Awaiting
    /\ UNCHANGED <<outer, stores, income, editId>>

(* click on the delete button of a record of the rendered list:
   await dbp.delete(store, id) *)
deleteExpense(id) ==
    /\ id \in SeqIds(mirror)
    /\ Room
    /\ pending' = Append(pending, Request("records", "delete", id, Undefined,
                                          DeleteFn, "delete", NoLoc))
    /\ last' = Awaiting
    /\ UNCHANGED <<outer, stores, mirror, income, editId, view>>

(* the filter with the comparison inverted *)
FilterKeep(m, id) == SelectSeq(m, LAMBDA e : e.id = id)

(* state.expenses.filter(e => e.id !== id) *)
FilterOut(m, id) == SelectSeq(m, LAMBDA e : e.id # id)

(* the delete succeeded: filter the mirror, computeAndRender() *)
deleteDone(i) ==
    LET req == pending[i]
        m   == FilterOut(mirror, req.key)
    IN  /\ req.pc = "delete" /\ CanComplete(i)
        /\ txStore' = TxDeleted(req.key)
        /\ mirror' = m
        /\ view' = computeAndRender(m, income)
        /\ pending' = Without(i)
        /\ last' = Step(req.fn, "ok", req.key, Len(TxGet(req.key).attachments))
        /\ UNCHANGED <<outer, attStore, metaIncome, txKeyGen, attKeyGen, income, editId>>

---------------------------------------------------------------------------
(* Legacy income scalar: saveIncome *)

saveIncome(raw) ==
    /\ variant = "legacy"
    /\ Room
    /\ pending' = Append(pending, Request("meta", "put", 0, parseAmount(raw),
                                          "saveIncome", "put", NoLoc))
    /\ last' = Awaiting
    /\ UNCHANGED <<outer, stores, mirror, income, editId, view>>

(* state.income = v; computeAndRender() *)
saveIncomeDone(i) ==
    LET req == pending[i]
    IN  /\ req.fn = "saveIncome" /\ CanComplete(i)
        /\ metaIncome' = req.value
        /\ income' = req.value
        /\ view' = computeAndRender(mirror, req.value)
        /\ pending' = Without(i)
        /\ last' = Step("saveIncome", "ok", 0, 0)
        /\ UNCHANGED <<outer, txStore, attStore, txKeyGen, attKeyGen, mirror, editId>>

---------------------------------------------------------------------------
(* Info panel: refreshInfoPanel, called at the end of the init sequence, by the
   refresh button and (unified) by setInterval every 10 minutes *)

MaxRefresh == 1   \* invocations of refreshInfoPanel in flight at once

Feeds == {"cl", "crypto"}

(* the two fetches of an invocation, just started *)
Fetching == [f \in Feeds |-> "pending"]

(* the panel after the init sequence: setInfoListsLoading() done, the first
   refresh awaiting its fetches, #lastUpdate as in the page's HTML *)
InfoAtLoad == [lists |-> "loading", status |-> "none", calls |-> <<Fetching>>]

(* refreshInfoPanel() up to its await *)
refreshInfoPanel(by) ==
    /\ by = "timer" => variant = "unified"
    /\ Len(info.calls) < MaxRefresh
    /\ info' = [info EXCEPT !.lists = "loading", !.calls = Append(@, Fetching)]
    /\ last' = Step("refreshInfoPanel", "await", 0, 0)
    /\ UNCHANGED <<variant, clock, tz, idb, shelved, blobs, stores, mirror, income, editId,
                   view, pending>>

CallsWithout(k) == SubSeq(info.calls, 1, k - 1) \o SubSeq(info.calls, k + 1, Len(info.calls))

(* the lists filled in and #lastUpdate set to 'Actualizado: ...' *)
Rendered(calls) == [lists |-> "values", status |-> "updated", calls |-> calls]

(* the failure swallowed, #lastUpdate left as it was *)
CaughtSilent(calls) == [info EXCEPT !.calls = calls]

(* catch (e) { $('#lastUpdate').textContent = 'No se pudo actualizar. ...' } *)
Caught(calls) == [info EXCEPT !.status = "unavailable", !.calls = calls]

(* a fetch of the k-th invocation resolved with its JSON; with both resolved
   Promise.all resolves and the try block runs to its end *)
fetchResolved(k, f) ==
    LET call == [info.calls[k] EXCEPT ![f] = "ok"]
    IN  /\ info.calls[k][f] = "pending"
        /\ IF \A g \in Feeds : call[g] = "ok"
           THEN /\ info' = Rendered(CallsWithout(k))
                /\ last' = Step("refreshInfoPanel", "ok", 0, 0)
           ELSE /\ info' = [info EXCEPT !.calls[k] = call]
                /\ last' = Step("refreshInfoPanel", "await", 0, 0)
        /\ UNCHANGED <<variant, clock, tz, idb, shelved, blobs, stores, mirror, income, editId,
                       view, pending>>

(* a fetch of the k-th invocation rejected (or its r.json() did): Promise.all
   rejects at once and the catch block runs *)
fetchRejected(k, f) ==
    /\ info.calls[k][f] = "pending"
    /\ info' = Caught(CallsWithout(k))
    /\ last' = Step("refreshInfoPanel", "caught", 0, 0)
    /\ UNCHANGED <<variant, clock, tz, idb, shelved, blobs, stores, mirror, income, editId,
                   view, pending>>

---------------------------------------------------------------------------
(* The receipt link of a list item: its click handler reads the first
   attachment, makes a blob URL for it, opens it and sets a timer that
   revokes the URL *)

MaxOpens       == 3   \* blob URLs ever created
TicksPerMinute == 2   \* steps of the clock in a minute
IdleTicks      == 2   \* steps the clock takes with no timer set

RevokeDelay == 60000
TickMs == RevokeDelay \div TicksPerMinute

(* the clock d, n milliseconds later *)
After(d, n) == [day |-> d.day + (d.ms + n) \div MsPerDay, ms |-> (d.ms + n) % MsPerDay]

(* milliseconds from a to b *)
Elapsed(a, b) == (b.day - a.day) * MsPerDay + (b.ms - a.ms)

(* a page with no blob URL made: live are the URLs of the page's blob URL store,
   timers the callbacks set and not yet run; made[u] is when URL u was created and
   revoked[u] how often revokeObjectURL was called with it *)
NoBlobs == [live |-> {}, timers |-> {}, made |-> <<>>, revoked |-> <<>>]

(* the URL the next createObjectURL returns: each one is new *)
NextUrl(b) == Len(b.made) + 1

(* URL.createObjectURL(at.blob) *)
createObjectURL(b) ==
    [b EXCEPT !.live = @ \cup { NextUrl(b) }, !.made = Append(@, clock),
              !.revoked = Append(@, 0)]

(* the callback never scheduled *)
setTimeoutDropped(b, url, delay) == b

(* setTimeout(() => URL.revokeObjectURL(url), delay) *)
setTimeout(b, url, delay) ==
    [b EXCEPT !.timers = @ \cup { [url |-> url, due |-> After(clock, delay)] }]

(* URL.revokeObjectURL(url) *)
revokeObjectURL(b, url) ==
    [b EXCEPT !.live = @ \ { url }, !.revoked[url] = @ + 1]

(* the document is unloaded: its timers are gone and the browser drops the
   blob URLs it had created *)
Unloaded(b) == [b EXCEPT !.live = {}, !.timers = {}]

(* objectStore('attachments').get(key) finds a record *)
AttFound(key) == key \in Ids(attStore)

NumOpening == Cardinality({ i \in 1 .. Len(pending) : pending[i].fn = "linkClick" })
OpenBudget == Len(blobs.made) + NumOpening < MaxOpens

(* click on the receipt link of a record of the rendered list:
   const ref = e.attachments[0]; await dbp.get('attachments', ref.storeId) *)
linkClick(id) ==
    /\ id \in SeqIds(mirror)
    /\ LET e == mirror[CHOOSE k \in 1 .. Len(mirror) : mirror[k].id = id]
       IN  /\ e.attachments # <<>>
           /\ Room /\ OpenBudget
           /\ pending' = Append(pending,
                  Request("attachments", "get", e.attachments[1].storeId, Undefined,
                          "linkClick", "open", NoLoc))
    /\ last' = Awaiting
    /\ UNCHANGED <<outer, stores, mirror, income, editId, view>>

(* the get completed: createObjectURL, window.open, setTimeout; on undefined
   at.blob throws a TypeError *)
linkClickDone(i) ==
    LET req == pending[i]
        url == NextUrl(blobs)
    IN  /\ req.fn = "linkClick" /\ CanComplete(i)
        /\ pending' = Without(i)
        /\ IF AttFound(req.key)
           THEN /\ blobs' = setTimeout(createObjectURL(blobs), url, RevokeDelay)
                /\ last' = Step("linkClick", "ok", url, 0)
           ELSE /\ blobs' = blobs
                /\ last' = Step("linkClick", "TypeError", 0, 0)
        /\ UNCHANGED <<variant, clock, tz, idb, shelved, info, stores, mirror, income,
                       editId, view>>

(* a timer set by the click handler is due and its callback runs *)
timerFires(t) ==
    /\ t \in blobs.timers
    /\ Leq(t.due, clock)
    /\ blobs' = revokeObjectURL([blobs EXCEPT !.timers = @ \ { t }], t.url)
    /\ last' = Step("revokeObjectURL", "ok", t.url, 0)
    /\ UNCHANGED <<variant, clock, tz, idb, shelved, info, stores, mirror, income,
                   editId, view, pending>>

(* the clock when the page of the receipt scenarios is first loaded *)
ClockAtStart == [day |-> Today, ms |-> MsPerDay - TickMs]

(* time passes, up to the next timer due; a callback that is due runs first *)
tick ==
    LET next == After(clock, TickMs)
        due  == { t.due : t \in blobs.timers }
    IN  /\ \A d \in due : ~Leq(d, clock)
        /\ due # {} \/ Elapsed(ClockAtStart, clock) < IdleTicks * TickMs
        /\ clock' = IF \E d \in due : Leq(d, next)
                    THEN CHOOSE d \in due : \A c \in due : Leq(d, c)
                    ELSE next
        /\ UNCHANGED <<variant, tz, idb, shelved, info, blobs, stores, mirror, income,
                       editId, view, pending, last>>

---------------------------------------------------------------------------
(* dbp.open(): indexedDB.open(name, 1) and the onupgradeneeded handler *)

DbNames == {"gastosDB", "gastosDB_v2"}

(* indexedDB.open('gastosDB', 1) / indexedDB.open('gastosDB_v2', 1) *)
DbName(v) == IF v = "legacy" THEN "gastosDB" ELSE "gastosDB_v2"

(* a database that was never opened: version 0, no object store *)
NoDb == [version |-> 0, stores |-> {}, error |-> FALSE]

(* the records of a database without any *)
NoRecords == [txStore |-> {}, attStore |-> {}, metaIncome |-> 0, txKeyGen |-> 1, attKeyGen |-> 1]

ObjectStore(name, keyPath, autoIncrement, indexes) ==
    [name |-> name, keyPath |-> keyPath, autoIncrement |-> autoIncrement, indexes |-> indexes]

(* the test taken as never true: the store is created on every run *)
containsNever(db, name) == FALSE

(* db.objectStoreNames.contains(name) *)
contains(db, name) == \E st \in db.stores : st.name = name

(* db.createObjectStore(...) with its createIndex calls: a ConstraintError when
   a store of that name exists *)
createObjectStore(db, st) ==
    IF \E x \in db.stores : x.name = st.name THEN [db EXCEPT !.error = TRUE]
    ELSE [db EXCEPT !.stores = @ \cup {st}]

(* if (!db.objectStoreNames.contains(name)) createObjectStore(...) *)
EnsureStore(db, st) == IF contains(db, st.name) THEN db ELSE createObjectStore(db, st)

(* req.onupgradeneeded of the variant v *)
onupgradeneeded(v, db) ==
    IF v = "unified"
    THEN EnsureStore(
           EnsureStore(db, ObjectStore("transactions", "id", TRUE,
                                       {"by_date", "by_name", "by_type"})),
           ObjectStore("attachments", "id", TRUE, {}))
    ELSE EnsureStore(
           EnsureStore(
             EnsureStore(db, ObjectStore("expenses", "id", TRUE, {"by_date", "by_name"})),
             ObjectStore("attachments", "id", TRUE, {})),
           ObjectStore("meta", "key", FALSE, {}))

(* indexedDB.open(name, 1): the handler runs when the stored version is below 1 *)
open(v, db) ==
    IF db.version < 1 THEN [onupgradeneeded(v, db) EXCEPT !.version = 1] ELSE db

(* the databases of a device on which the variant v was opened for the first time *)
FirstOpened(v) == [n \in DbNames |-> IF n = DbName(v) THEN open(v, NoDb) ELSE NoDb]

---------------------------------------------------------------------------
(* Start of a session: dbp.open(); loadAll() *)

RECURSIVE GetAll(_)
(* objectStore.getAll(): the records in key order *)
GetAll(S) ==
    IF S = {} THEN <<>>
    ELSE LET r == CHOOSE x \in S : \A y \in S : x.id <= y.id
         IN  <<r>> \o GetAll(S \ {r})

(* a page load with no request in flight: fresh state, then loadAll() *)
loadAll ==
    LET m   == SortDesc(GetAll(txStore))
        inc == IF variant = "legacy" THEN metaIncome ELSE 0
    IN  /\ pending = <<>>
        /\ mirror' = m
        /\ income' = inc
        /\ editId' = 0
        /\ view' = computeAndRender(m, inc)
        /\ idb' = [idb EXCEPT ![DbName(variant)] = open(variant, @)]
        /\ info' = InfoAtLoad
        /\ blobs' = Unloaded(blobs)
        /\ last' = Step("loadAll", "ok", 0, 0)
        /\ UNCHANGED <<variant, clock, tz, shelved, stores, pending>>

(* the unified app.js replaces the legacy one and the page loads: dbp.open()
   opens 'gastosDB_v2', loadAll() reads its 'transactions' *)
installUnified ==
    LET m == SortDesc(GetAll(shelved.txStore))
    IN  /\ variant = "legacy"
        /\ pending = <<>>
        /\ variant' = "unified"
        /\ idb' = [idb EXCEPT !["gastosDB_v2"] = open("unified", @)]
        /\ shelved' = [txStore |-> txStore, attStore |-> attStore, metaIncome |-> metaIncome,
                       txKeyGen |-> txKeyGen, attKeyGen |-> attKeyGen]
        /\ txStore' = shelved.txStore /\ attStore' = shelved.attStore
        /\ metaIncome' = shelved.metaIncome
        /\ txKeyGen' = shelved.txKeyGen /\ attKeyGen' = shelved.attKeyGen
        /\ mirror' = m
        /\ income' = 0
        /\ editId' = 0
        /\ view' = computeUnified(m) @@ statsUnified(m)
        /\ info' = InfoAtLoad
        /\ blobs' = Unloaded(blobs)
        /\ last' = Step("install", "ok", 0, 0)
        /\ UNCHANGED <<clock, tz, pending>>

(* the failed request issued again by the wrapper *)
storageFaultRetry(i) ==
    LET req == pending[i]
    IN  /\ CanComplete(i)
        /\ pending' = Append(Without(i), req)
        /\ last' = Step(req.fn, "StorageFault", 0, Len(req.loc.refs))
        /\ UNCHANGED <<outer, stores, mirror, income, editId, view>>

(* the mirror changed and the page rendered though the request failed *)
storageFaultOptimistic(i) ==
    LET req == pending[i]
        m   == FilterOut(mirror, req.key)
    IN  /\ CanComplete(i)
        /\ pending' = Without(i)
        /\ mirror' = m
        /\ view' = computeAndRender(m, income)
        /\ last' = Step(req.fn, "StorageFault", 0, Len(req.loc.refs))
        /\ UNCHANGED <<outer, stores, income, editId>>

(* req.onerror: the request fails, the awaiting handler ends with the storage error;
   the receipts it had stored before stay *)
storageFault(i) ==
    LET req == pending[i]
    IN  /\ CanComplete(i)
        /\ pending' = Without(i)
        /\ last' = Step(req.fn, "StorageFault", 0, Len(req.loc.refs))
        /\ UNCHANGED <<outer, stores, mirror, income, editId, view>>

---------------------------------------------------------------------------
Init ==
    /\ variant \in {"legacy", "unified"}
    /\ txStore = {} /\ attStore = {} /\ metaIncome = 0
    /\ txKeyGen = 1 /\ attKeyGen = 1
    /\ mirror = <<>> /\ income = 0 /\ editId = 0
    /\ clock = [day |-> Today, ms |-> 12 * MsPerHour] /\ tz = 0
    /\ idb = FirstOpened(variant) /\ shelved = NoRecords
    /\ info = InfoAtLoad
    /\ blobs = NoBlobs
    /\ view = computeAndRender(<<>>, 0)
    /\ pending = <<>>
    /\ last = Step("init", "ok", 0, 0)

Next ==
    \/ \E f \in LedgerForms : onAddTx(f)
    \/ \E f \in LedgerForms : onAddExpense(f)
    \/ \E i \in 1 .. Len(pending) : onAddTxDone(i)
    \/ \E id \in 1 .. MaxTx : openEditDialog(id)
    \/ \E f \in LedgerForms : updateTx(f)
    \/ \E f \in LedgerForms : updateExpense(f)
    \/ \E i \in 1 .. Len(pending) : updateGetDone(i)
    \/ \E i \in 1 .. Len(pending) : updatePutDone(i)
    \/ \E id \in 1 .. MaxTx : deleteExpense(id)
    \/ \E i \in 1 .. Len(pending) : deleteDone(i)
    \/ \E raw \in LedgerIncomes : saveIncome(raw)
    \/ \E i \in 1 .. Len(pending) : saveIncomeDone(i)
    \/ loadAll
    \/ \E i \in 1 .. Len(pending) : storageFault(i)

(* the ledger: both variants, concurrent create / update / delete, storage faults *)
Spec == Init /\ [][Next]_vars

NextAttach ==
    \/ \E f \in AttachForms : onAddTx(f)
    \/ \E f \in AttachForms : onAddExpense(f)
    \/ \E i \in 1 .. Len(pending) : onAddPhotoDone(i)
    \/ \E i \in 1 .. Len(pending) : onAddDocDone(i)
    \/ \E i \in 1 .. Len(pending) : onAddTxDone(i)
    \/ \E id \in 1 .. MaxTx : openEditDialog(id)
    \/ \E f \in AttachForms : updateTx(f)
    \/ \E f \in AttachForms : updateExpense(f)
    \/ \E i \in 1 .. Len(pending) : updateGetDone(i)
    \/ \E i \in 1 .. Len(pending) : updatePhotoDone(i)
    \/ \E i \in 1 .. Len(pending) : updateDocDone(i)
    \/ \E i \in 1 .. Len(pending) : updatePutDone(i)
    \/ \E id \in 1 .. MaxTx : deleteExpense(id)
    \/ \E i \in 1 .. Len(pending) : deleteDone(i)
    \/ loadAll
    \/ \E i \in 1 .. Len(pending) : storageFault(i)

(* receipts: create and update with files, delete, storage faults *)
SpecAttach == Init /\ [][NextAttach]_vars

NextInput ==
    \/ \E f \in InputForms : onAddTx(f)
    \/ \E f \in InputForms : onAddExpense(f)
    \/ \E i \in 1 .. Len(pending) : onAddPhotoDone(i)
    \/ \E i \in 1 .. Len(pending) : onAddTxDone(i)
    \/ \E id \in 1 .. MaxTx : openEditDialog(id)
    \/ \E f \in InputForms : updateTx(f)
    \/ \E f \in InputForms : updateExpense(f)
    \/ \E i \in 1 .. Len(pending) : updateGetDone(i)
    \/ \E i \in 1 .. Len(pending) : updatePhotoDone(i)
    \/ \E i \in 1 .. Len(pending) : updatePutDone(i)

(* validation: create and update with whatever was typed into the form *)
SpecInput == Init /\ [][NextInput]_vars

---------------------------------------------------------------------------
(* The aggregation on its own: the page opens on a store persisted by an
   earlier session, and loadAll() sorts and renders it. *)

MaxAggLen == 2
AggAmounts == { 1, 2, 29, 120000, 500000 }

(* the stores a session can have left behind: ids 1..n, any type and amount *)
AggStores ==
    UNION { { { [id |-> i, type |-> ty[i], name |-> <<"a">>, amount |-> am[i],
                 date |-> Today, attachments |-> <<>>, created |-> i - 1] : i \in 1 .. n }
              : ty \in [1 .. n -> Types], am \in [1 .. n -> AggAmounts] }
            : n \in 0 .. MaxAggLen }

InitAgg ==
    /\ variant = "unified"
    /\ txStore \in AggStores
    /\ txKeyGen = Cardinality(txStore) + 1
    /\ attStore = {} /\ metaIncome = 0 /\ attKeyGen = 1
    /\ mirror = <<>> /\ income = 0 /\ editId = 0
    /\ clock = [day |-> Today, ms |-> 12 * MsPerHour] /\ tz = 0
    /\ idb = FirstOpened(variant) /\ shelved = NoRecords
    /\ info = InfoAtLoad
    /\ blobs = NoBlobs
    /\ view = computeAndRender(<<>>, 0)
    /\ pending = <<>>
    /\ last = Step("init", "ok", 0, 0)

NextAgg == loadAll

SpecAgg == InitAgg /\ [][NextAgg]_vars

---------------------------------------------------------------------------
(* The statistics on their own: the page opens at some moment of some day, in
   some zone, on a store persisted by earlier sessions. *)

MaxPeriodLen == 1
MaxChartDays == 16

(* the days the page is opened on, <<year, month (0-based), day>> *)
PeriodDays ==
    { <<2024, 2, 10>>, <<2024, 2, 20>>, <<2024, 2, 15>>, <<2024, 2, 16>>,
      <<2024, 2, 1>>, <<2024, 2, 31>>, <<2024, 1, 29>>, <<2023, 1, 28>>,
      <<2024, 11, 31>>, <<2024, 0, 3>>, <<2024, 3, 30>> }
PeriodTimes == { 0, 12 * MsPerHour, MsPerDay - 1 }
Zones == { -3, 0, 2 }

(* dates on and next to the edges of the windows of the day d *)
EdgeDates(d) ==
    LET y     == getFullYear(d)
        m     == getMonth(d)
        first == MakeDay(y, m, 1)
        lastd == MakeDay(y, m, DaysInMonth(y, m))
    IN  { d.day - 7, d.day - 6, d.day - 1, d.day, d.day + 1,
          first - 1, first, first + 14, first + 15, lastd, lastd + 1 }

(* up to MaxPeriodLen records of either type dated on the edges *)
PeriodStores(d) ==
    UNION { { { [id |-> i, type |-> ty[i], name |-> <<"a">>, amount |-> 1000 * i,
                 date |-> dt[i], attachments |-> <<>>, created |-> i - 1] : i \in 1 .. n }
              : ty \in [1 .. n -> Types], dt \in [1 .. n -> EdgeDates(d)] }
            : n \in 0 .. MaxPeriodLen }

(* n records on the n days up to d, all expenses but the k-th *)
ChartStores(d) ==
    { { [id |-> i, type |-> IF i = k THEN "income" ELSE "expense", name |-> <<"a">>,
         amount |-> 1000 * i, date |-> d.day - n + i, attachments |-> <<>>,
         created |-> i - 1] : i \in 1 .. n }
      : n \in 0 .. MaxChartDays, k \in 0 .. MaxChartDays }

(* n expenses on the n days up to d, the oldest the largest *)
FallingStores(d) ==
    { { [id |-> i, type |-> "expense", name |-> <<"a">>, amount |-> 1000 * (n - i + 1),
         date |-> d.day - n + i, attachments |-> <<>>, created |-> i - 1] : i \in 1 .. n }
      : n \in 1 .. MaxChartDays }

(* expenses of 1000 and 2000 on 2024-01-01 and of 3000 on 2024-01-02 *)
ScenarioB ==
    { [id |-> i, type |-> "expense", name |-> <<"a">>, amount |-> 1000 * i,
       date |-> MakeDay(2024, 0, IF i = 3 THEN 2 ELSE 1), attachments |-> <<>>,
       created |-> i - 1] : i \in 1 .. 3 }

InitPeriod ==
    /\ variant = "unified"
    /\ \E a \in PeriodDays : \E ms \in PeriodTimes : clock = NewDate(a[1], a[2], a[3], ms)
    /\ tz \in Zones
    /\ txStore \in PeriodStores(clock) \cup ChartStores(clock) \cup FallingStores(clock)
                    \cup {ScenarioB}
    /\ txKeyGen = Cardinality(txStore) + 1
    /\ attStore = {} /\ metaIncome = 0 /\ attKeyGen = 1
    /\ mirror = <<>> /\ income = 0 /\ editId = 0
    /\ idb = FirstOpened(variant) /\ shelved = NoRecords
    /\ info = InfoAtLoad
    /\ blobs = NoBlobs
    /\ view = computeAndRender(<<>>, 0)
    /\ pending = <<>>
    /\ last = Step("init", "ok", 0, 0)

NextPeriod == loadAll

SpecPeriod == InitPeriod /\ [][NextPeriod]_vars

---------------------------------------------------------------------------
(* Replacement of the legacy app.js by the unified one on a device in use *)

NextUpgrade ==
    \/ \E f \in LedgerForms : onAddExpense(f)
    \/ \E f \in LedgerForms : onAddTx(f)
    \/ \E i \in 1 .. Len(pending) : onAddTxDone(i)
    \/ \E raw \in LedgerIncomes : saveIncome(raw)
    \/ \E i \in 1 .. Len(pending) : saveIncomeDone(i)
    \/ \E id \in 1 .. MaxTx : deleteExpense(id)
    \/ \E i \in 1 .. Len(pending) : deleteDone(i)
    \/ loadAll
    \/ installUnified

InitUpgrade == Init /\ variant = "legacy"

SpecUpgrade == InitUpgrade /\ [][NextUpgrade]_vars

---------------------------------------------------------------------------
(* The info panel next to the ledger *)

InfoForms == [type : { "expense" }, name : { <<" ", "a">> }, amount : { Num(15) },
              date : { NoDate }, photo : { NoFile }, doc : { NoFile }]

NextInfo ==
    \/ \E by \in {"click", "timer"} : refreshInfoPanel(by)
    \/ \E k \in 1 .. Len(info.calls) : \E f \in Feeds : fetchResolved(k, f)
    \/ \E k \in 1 .. Len(info.calls) : \E f \in Feeds : fetchRejected(k, f)
    \/ \E f \in InfoForms : onAddTx(f)
    \/ \E f \in InfoForms : onAddExpense(f)
    \/ \E i \in 1 .. Len(pending) : onAddTxDone(i)
    \/ \E id \in 1 .. MaxTx : openEditDialog(id)
    \/ \E f \in InfoForms : updateTx(f)
    \/ \E f \in InfoForms : updateExpense(f)
    \/ \E i \in 1 .. Len(pending) : updateGetDone(i)
    \/ \E i \in 1 .. Len(pending) : updatePutDone(i)
    \/ \E id \in 1 .. MaxTx : deleteExpense(id)
    \/ \E i \in 1 .. Len(pending) : deleteDone(i)

SpecInfo == Init /\ [][NextInfo]_vars

---------------------------------------------------------------------------
(* Receipts opened from the list *)

(* two stored records with receipts: one photo; a photo and a document *)
ReceiptRecords(v) ==
    { [id |-> 1, type |-> IF v = "unified" THEN "expense" ELSE NoType, name |-> <<"a">>,
       amount |-> 1000, date |-> Today, created |-> 0,
       attachments |-> << [storeId |-> 1, kind |-> "photo"] >>],
      [id |-> 2, type |-> IF v = "unified" THEN "expense" ELSE NoType, name |-> <<"a">>,
       amount |-> 2000, date |-> Today, created |-> 1,
       attachments |-> << [storeId |-> 2, kind |-> "photo"],
                          [storeId |-> 3, kind |-> "document"] >>] }

ReceiptBlobs ==
    { [id |-> 1, blob |-> "photo", created |-> 0],
      [id |-> 2, blob |-> "photo", created |-> 1],
      [id |-> 3, blob |-> "document", created |-> 1] }

InitReceipts ==
    /\ variant \in {"legacy", "unified"}
    /\ txStore = ReceiptRecords(variant) /\ attStore = ReceiptBlobs /\ metaIncome = 0
    /\ txKeyGen = 3 /\ attKeyGen = 4
    /\ mirror = <<>> /\ income = 0 /\ editId = 0
    /\ clock = ClockAtStart /\ tz = 0
    /\ idb = FirstOpened(variant) /\ shelved = NoRecords
    /\ info = InfoAtLoad
    /\ blobs = NoBlobs
    /\ view = computeAndRender(<<>>, 0)
    /\ pending = <<>>
    /\ last = Step("init", "ok", 0, 0)

NextReceipts ==
    \/ loadAll
    \/ \E id \in 1 .. MaxTx : linkClick(id)
    \/ \E i \in 1 .. Len(pending) : linkClickDone(i)
    \/ \E t \in blobs.timers : timerFires(t)
    \/ tick
    \/ \E id \in 1 .. MaxTx : deleteExpense(id)
    \/ \E i \in 1 .. Len(pending) : deleteDone(i)
    \/ \E i \in 1 .. Len(pending) : storageFault(i)

(* the clock runs and the event loop runs the callbacks that are due *)
TimePasses == tick \/ \E t \in blobs.timers : timerFires(t)

SpecReceipts == InitReceipts /\ [][NextReceipts]_vars /\ WF_vars(TimePasses)

---------------------------------------------------------------------------
(* Properties *)

DeleteFns == {"deleteTx", "deleteExpense"}

(* date descending, id descending on equal dates *)
SortedByDateIdDesc(m) ==
    \A i, j \in 1 .. Len(m) :
        i < j => \/ m[i].date > m[j].date
                 \/ (m[i].date = m[j].date /\ m[i].id > m[j].id)

MirrorSet == { mirror[i] : i \in 1 .. Len(mirror) }

RECURSIVE SumOver(_, _)
(* sum of amount over the mirror records at the positions P *)
SumOver(m, P) ==
    IF P = {} THEN 0
    ELSE LET i == CHOOSE x \in P : TRUE IN m[i].amount + SumOver(m, P \ {i})

IncomeSum(m)  == SumOver(m, { i \in 1 .. Len(m) : m[i].type = "income" })
ExpenseSum(m) == SumOver(m, { i \in 1 .. Len(m) : m[i].type = "expense" })

(* C1: the mirror is sorted by (date desc, id desc) after every completed
   mutation and after loadAll.  The mirror changes only in the step that
   completes a mutation or a load, so this is an invariant of the mirror. *)
C1_MirrorSorted == SortedByDateIdDesc(mirror)

(* C2: once every in-flight handler has completed, the mirror holds exactly
   the records of the persisted store. *)
C2_MirrorEqualsStore == pending = <<>> => MirrorSet = txStore

(* C3: in the unified variant the balance on the page is income minus expense
   over the current mirror, not clamped. *)
C3_AvailableExact ==
    variant = "unified" =>
        /\ view.income = IncomeSum(mirror)
        /\ view.spent = ExpenseSum(mirror)
        /\ view.available = IncomeSum(mirror) - ExpenseSum(mirror)

(* C3 witness: a mutation has completed and left a negative balance on the page *)
C3_Witness ==
    /\ variant = "unified"
    /\ last.res = "ok" /\ last.fn \in {"onAddTx", "updateTx", "deleteTx"}
    /\ Len(mirror) = 2
    /\ view.available < 0

(* round(e / i * 100) for i > 0: the integer k with k - 1/2 <= 100 e / i < k + 1/2,
   then clamped to [0,100]; 0 when i = 0 *)
RatioOf(e, i) ==
    IF i = 0 THEN 0
    ELSE IF 200 * e >= 201 * i THEN 100
    ELSE CHOOSE k \in 0 .. 100 : 2 * i * k - i <= 200 * e /\ 200 * e < 2 * i * k + i

(* C4: the ratio on the page is round(expenseSum / incomeSum * 100) clamped to
   [0,100], and 0 when incomeSum = 0; income 500000 with expense 120000 gives
   available 380000 and ratio 24; more expense than (positive) income gives 100. *)
C4_Ratio ==
    LET inc == IncomeSum(mirror)
        exp == ExpenseSum(mirror)
    IN  /\ view.ratio = RatioOf(exp, inc)
        /\ view.ratio \in 0 .. 100
        /\ (inc = 0) => view.ratio = 0
        /\ (inc = 500000 /\ exp = 120000) => (view.available = 380000 /\ view.ratio = 24)
        /\ (inc > 0 /\ exp > inc) => view.ratio = 100

(* C4 witness: scenario A has been rendered *)
C4_Witness ==
    /\ last.fn = "loadAll"
    /\ IncomeSum(mirror) = 500000 /\ ExpenseSum(mirror) = 120000
    /\ view.ratio = 24

(* no two records share an id, and every id was handed out by the key generator *)
C5_IdsUnique ==
    /\ \A r1, r2 \in txStore : r1.id = r2.id => r1 = r2
    /\ \A i, j \in 1 .. Len(mirror) : i # j => mirror[i].id # mirror[j].id
    /\ \A id \in Ids(txStore) \cup SeqIds(mirror) : id \in 1 .. (txKeyGen - 1)

(* a completed insert got the generator's next key, which no record holds or held,
   and added exactly one record to the store and to the mirror *)
C5_FreshStep ==
    /\ txKeyGen' >= txKeyGen
    /\ (last'.res = "ok" /\ last'.fn \in AddFns) =>
          /\ last'.id = txKeyGen
          /\ txKeyGen' = txKeyGen + 1
          /\ last'.id \notin Ids(txStore) \cup SeqIds(mirror)
          /\ \A id \in Ids(txStore) \cup SeqIds(mirror) : id < last'.id
          /\ Ids(txStore') = Ids(txStore) \cup {last'.id}
          /\ Cardinality(txStore') = Cardinality(txStore) + 1
          /\ Len(mirror') = Len(mirror) + 1

(* C5: ids are assigned by the store at insert, unique in the store and in the
   mirror, strictly increasing in insertion order and never assigned again. *)
C5_StoreAssignedIds == [](C5_IdsUnique) /\ [][C5_FreshStep]_vars

(* C5 witness: id 1 was freed by a delete and the insert that followed got id 2 *)
C5_Witness ==
    /\ last.res = "ok" /\ last.fn \in AddFns /\ last.id = 2
    /\ Ids(txStore) = {2} /\ SeqIds(mirror) = {2}

Kinds(refs) == [k \in 1 .. Len(refs) |-> refs[k].kind]

RefsResolve(refs) == \A k \in 1 .. Len(refs) : refs[k].storeId \in Ids(attStore)

(* every ref of a persisted record, and of a record about to be written, names a
   stored attachment; refs are in input order; a create issues the record insert
   only with all its files stored *)
C6_RefsResolve ==
    /\ \A r \in txStore :
          /\ RefsResolve(r.attachments)
          /\ Kinds(r.attachments) \in
                { <<>>, <<"photo">>, <<"document">>, <<"photo", "document">> }
    /\ \A i \in 1 .. Len(pending) :
          (pending[i].store = "records" /\ pending[i].op \in {"add", "put"}) =>
              /\ RefsResolve(pending[i].value.attachments)
              /\ (pending[i].op = "add") =>
                    Len(pending[i].value.attachments) = NumFiles(pending[i].loc)

(* C6: every AttachmentRef of a persisted transaction names an existing record
   of the attachment store, and no operation removes an attachment. *)
C6_NoDanglingRef == [](C6_RefsResolve) /\ [][attStore \subseteq attStore']_vars

(* C6 witness: a record with a photo and a document has been persisted *)
C6_Witness ==
    /\ last.res = "ok" /\ last.fn \in AddFns
    /\ \E r \in txStore :
          /\ r.id = last.id
          /\ Kinds(r.attachments) = <<"photo", "document">>
          /\ RefsResolve(r.attachments)

(* the step that completes a delete of the record last'.id *)
C7_DeleteStep ==
    (last'.res = "ok" /\ last'.fn \in DeleteFns) =>
        /\ attStore' = attStore
        /\ attKeyGen' = attKeyGen
        /\ txStore' = { r \in txStore : r.id # last'.id }
        /\ { mirror'[i] : i \in 1 .. Len(mirror') } = { r \in MirrorSet : r.id # last'.id }
        /\ Len(mirror') = Cardinality({ i \in 1 .. Len(mirror) : mirror[i].id # last'.id })

(* C7: a delete removes exactly that record from the store and from the mirror
   and leaves the attachment store as it was. *)
C7_DeleteFrame == [][C7_DeleteStep]_vars

(* C7 witness: a record with 2 attachments was deleted; both are still stored *)
C7_Witness ==
    /\ last.res = "ok" /\ last.fn \in DeleteFns /\ last.n = 2
    /\ last.id \notin Ids(txStore) \cup SeqIds(mirror)
    /\ Cardinality(attStore) = 2

Blank(name) == \A k \in 1 .. Len(name) : name[k] = " "

(* every request a create or update handler has issued carries a name that is
   not blank and an amount that is strictly positive *)
C8_OnlyValidIssued ==
    \A i \in 1 .. Len(pending) :
        pending[i].fn \in AddFns \cup UpdateFns =>
            ~Blank(pending[i].loc.name) /\ pending[i].loc.amount > 0

(* a rejected submission touches no store, no mirror and issues no request *)
C8_RejectStep ==
    last'.res = "rejected" =>
        UNCHANGED <<stores, mirror, income, editId, view, pending>>

(* C8: a create or update with an empty name or a non-positive amount issues no
   store operation and changes neither the stores nor the mirror. *)
C8_RejectedBeforeIO == [](C8_OnlyValidIssued) /\ [][C8_RejectStep]_vars

(* C8 witness: an update that came with a file was rejected, nothing was written *)
C8_Witness ==
    /\ last.res = "rejected" /\ last.fn = "updateTx" /\ last.n > 0
    /\ txStore # {}
    /\ attStore = {}

ParseProbes == RawAmounts \cup { Num(t) : t \in -20 .. 30 }

(* C9: every persisted amount is an integer >= 1; parseAmount maps negative and
   non-numeric input to 0 and rounds non-negative input to the nearest integer. *)
C9_AmountPositive ==
    /\ \A r \in txStore : r.amount \in Nat /\ r.amount >= 1
    /\ \A i \in 1 .. Len(pending) :
          (pending[i].store = "records" /\ pending[i].op \in {"add", "put"}) =>
              pending[i].value.amount >= 1
    /\ \A raw \in ParseProbes :
          LET p == parseAmount(raw)
          IN  /\ p \in Nat
              /\ (raw.k # "num" \/ raw.tenths < 0) => p = 0
              /\ (raw.k = "num" /\ raw.tenths >= 0) =>
                    (10 * p - raw.tenths <= 5 /\ raw.tenths - 10 * p < 5)

(* C9 witness: the input 0.5 was stored as amount 1 *)
C9_Witness ==
    /\ last.res = "ok" /\ last.fn \in AddFns
    /\ \E r \in txStore : r.id = last.id /\ r.amount = 1

(* C10: an update or a delete that finds its record gone ends without an error. *)
C10_MissingIsNoOp == last.res # "TypeError"

(* requests of the update handlers in flight *)
NumUpdating(q) == Cardinality({ i \in 1 .. Len(q) : q[i].fn \in UpdateFns })

(* with no record staged no step starts an update request, and the step in which
   update returns at the editId test changes nothing *)
C11_NoEditStep ==
    /\ editId = 0 => NumUpdating(pending') <= NumUpdating(pending)
    /\ last'.res = "noedit" =>
          /\ editId = 0
          /\ UNCHANGED <<stores, mirror, income, editId, view, pending>>

(* C11: update invoked while state.editId is null issues no store read or write,
   leaves the mirror unchanged and runs no recompute. *)
C11_NoEditIsNoOp == [][C11_NoEditStep]_vars

(* C11 witness: update returned at the editId test with records on the page *)
C11_Witness ==
    /\ last.res = "noedit" /\ last.fn \in UpdateFns
    /\ editId = 0
    /\ mirror # <<>> /\ txStore # {}

At(day, ms) == [day |-> day, ms |-> ms]

(* the windows of the day <<y, m, d>> (m 0-based) as calendar days, first
   instant of the first day to last instant of the last *)
TodayWindow(y, m, d) ==
    [start |-> At(MakeDay(y, m, d), 0), end |-> At(MakeDay(y, m, d), MsPerDay - 1)]
WeekWindow(y, m, d) ==
    [start |-> At(MakeDay(y, m, d) - 6, 0), end |-> At(MakeDay(y, m, d), MsPerDay - 1)]
MonthWindow(y, m) ==
    [start |-> At(MakeDay(y, m, 1), 0),
     end   |-> At(MakeDay(y, m, DaysInMonth(y, m)), MsPerDay - 1)]
FortnightWindow(y, m, d) ==
    IF d <= 15
    THEN [start |-> At(MakeDay(y, m, 1), 0), end |-> At(MakeDay(y, m, 15), MsPerDay - 1)]
    ELSE [start |-> At(MakeDay(y, m, 16), 0),
          end   |-> At(MakeDay(y, m, DaysInMonth(y, m)), MsPerDay - 1)]

(* C12: on every day the page is opened, at any time of it, the four windows are
   the calendar ones: today; the 7 days ending today; days 1-15 or 16-last of the
   month; the month.  On 2024-03-10 the fortnight is 03-01..03-15, on 2024-03-20
   it is 03-16..03-31.  getPeriodRange gives the same windows. *)
C12_Windows ==
    /\ \A a \in PeriodDays :
          clock.day = MakeDay(a[1], a[2], a[3]) =>
              /\ view.r.today = TodayWindow(a[1], a[2], a[3])
              /\ view.r.week = WeekWindow(a[1], a[2], a[3])
              /\ view.r.fortnight = FortnightWindow(a[1], a[2], a[3])
              /\ view.r.month = MonthWindow(a[1], a[2])
              /\ getPeriodRange("week") = WeekWindow(a[1], a[2], a[3])
              /\ getPeriodRange("fortnight") = FortnightWindow(a[1], a[2], a[3])
              /\ getPeriodRange("month") = MonthWindow(a[1], a[2])
    /\ clock.day = MakeDay(2024, 2, 10) =>
          /\ view.r.fortnight.start = At(MakeDay(2024, 2, 1), 0)
          /\ view.r.fortnight.end = At(MakeDay(2024, 2, 15), MsPerDay - 1)
    /\ clock.day = MakeDay(2024, 2, 20) =>
          /\ view.r.fortnight.start = At(MakeDay(2024, 2, 16), 0)
          /\ view.r.fortnight.end = At(MakeDay(2024, 2, 31), MsPerDay - 1)

(* C12 witness: the page was rendered on the last instant of 2024-02-29; the
   fortnight runs from the 16th to the 29th and the week started on the 23rd *)
C12_Witness ==
    /\ last.fn = "loadAll"
    /\ clock = At(MakeDay(2024, 1, 29), MsPerDay - 1)
    /\ view.r.fortnight = [start |-> At(MakeDay(2024, 1, 16), 0), end |-> clock]
    /\ view.r.week.start = At(MakeDay(2024, 1, 23), 0)

(* sum of the expenses of the mirror dated on a calendar day of the window w *)
ExpenseSumIn(m, w) ==
    SumOver(m, { i \in 1 .. Len(m) :
                    /\ m[i].type = "expense"
                    /\ w.start.day <= m[i].date /\ m[i].date <= w.end.day })

(* C13: each period sum on the page is the sum of the expenses dated on a day of
   the window, first and last day included, in every zone. *)
C13_PeriodSums ==
    variant = "unified" =>
        /\ view.today = ExpenseSumIn(mirror, view.r.today)
        /\ view.week = ExpenseSumIn(mirror, view.r.week)
        /\ view.fortnight = ExpenseSumIn(mirror, view.r.fortnight)
        /\ view.month = ExpenseSumIn(mirror, view.r.month)

(* the dates that carry at least one expense, ascending *)
ExpenseDates(m) == KeysAsc({ m[i].date : i \in { j \in 1 .. Len(m) : m[j].type = "expense" } })

(* C14: the chart has one point per date with at least one expense, none for a
   date with income only, each the sum of that date's expenses, dates ascending,
   the 14 most recent only; expenses of 1000 and 2000 on 2024-01-01 and 3000 on
   2024-01-02 give [(2024-01-01, 3000), (2024-01-02, 3000)]. *)
C14_Histogram ==
    variant = "unified" =>
        LET dates  == ExpenseDates(mirror)
            n      == Len(dates)
            shown  == IF n <= 14 THEN dates ELSE SubSeq(dates, n - 13, n)
        IN  /\ Len(view.chart) = Len(shown)
            /\ \A j \in 1 .. Len(shown) :
                  /\ view.chart[j][1] = shown[j]
                  /\ view.chart[j][2] =
                        SumOver(mirror, { i \in 1 .. Len(mirror) :
                                            mirror[i].type = "expense" /\ mirror[i].date = shown[j] })
            /\ MirrorSet = ScenarioB =>
                  view.chart = << <<MakeDay(2024, 0, 1), 3000>>, <<MakeDay(2024, 0, 2), 3000>> >>

(* C15: once the unified app.js runs on a device that held legacy data, every
   legacy expense is a record of the unified 'transactions' store and adds its
   amount to the expense sum, and every legacy attachment is in the store. *)
C15_UpgradePreserves ==
    variant = "unified" =>
        /\ \A e \in shelved.txStore :
              /\ \E t \in txStore :
                    t.name = e.name /\ t.amount = e.amount /\ t.date = e.date
              /\ computeUnified(<<e>>).spent = e.amount
        /\ \A a \in shelved.attStore : \E b \in attStore : b.blob = a.blob

(* C16: the handler run on a database on which it has run gives the same object
   stores and indexes and no error, and a page load that opens the database again
   changes neither its schema nor a record. *)
C16_Rerun ==
    \A v \in {"legacy", "unified"} :
        idb[DbName(v)].version = 1 =>
            /\ onupgradeneeded(v, idb[DbName(v)]) = idb[DbName(v)]
            /\ ~idb[DbName(v)].error
            /\ open(v, idb[DbName(v)]) = idb[DbName(v)]

C16_ReopenStep == last'.fn = "loadAll" => (idb' = idb /\ UNCHANGED stores)

C16_UpgradeIdempotent == [](C16_Rerun) /\ [][C16_ReopenStep]_vars

(* C16 witness: the unified page was loaded again on its own database, which
   holds a record; both databases of the device have their stores *)
C16_Witness ==
    /\ last.fn = "loadAll" /\ variant = "unified"
    /\ \A n \in DbNames : idb[n].version = 1 /\ idb[n].stores # {}
    /\ { st.name : st \in idb["gastosDB_v2"].stores } = {"transactions", "attachments"}
    /\ txStore # {}

(* the step in which a request fails: nothing is written or rolled back, the
   mirror and the page stay, and the handler is gone with its request *)
C17_FaultStep ==
    last'.res = "StorageFault" =>
        /\ UNCHANGED <<stores, mirror, income, editId, view>>
        /\ \E i \in 1 .. Len(pending) :
              /\ pending[i].fn = last'.fn
              /\ last'.n = Len(pending[i].loc.refs)
              /\ pending' = Without(i)

(* C17: when the record insert of a create fails after its attachment inserts,
   the attachments stay in their store, no record is added, the mirror and the
   page are unchanged and the handler ends with the error, without a retry. *)
C17_FaultLeavesOrphans == [][C17_FaultStep]_vars

(* C17 witness: a create with a photo and a document failed at the record insert;
   both receipts are stored and no record refers to them *)
C17_Witness ==
    /\ last.res = "StorageFault" /\ last.fn \in AddFns /\ last.n = 2
    /\ Cardinality(attStore) = 2
    /\ txStore = {} /\ mirror = <<>> /\ pending = <<>>

MutationFns == AddFns \cup UpdateFns \cup DeleteFns

(* the write of the request req is in the store *)
Written(req, id, S) ==
    CASE req.op = "add"    -> id \in Ids(S) /\ id \notin Ids(txStore)
      [] req.op = "put"    -> req.value \in S
      [] req.op = "delete" -> req.key \notin Ids(S)
      [] OTHER             -> FALSE

(* a step changes the mirror or the page only when it completes a write (or is
   a page load); a step completing a mutation takes the handler's request off the
   queue with its write in the store, and renders the mirror as it is then *)
C18_Step ==
    /\ (mirror' # mirror \/ view' # view) =>
          \/ last'.fn \in {"loadAll", "install"}
          \/ last'.res = "ok" /\ last'.fn \in MutationFns \cup {"saveIncome"}
    /\ (last'.res = "ok" /\ last'.fn \in MutationFns) =>
          /\ \E i \in 1 .. Len(pending) :
                /\ pending[i].fn = last'.fn
                /\ pending[i].store = "records"
                /\ Written(pending[i], last'.id, txStore')
                /\ pending' = Without(i)
          /\ view' = computeAndRender(mirror', income')

(* C18: in create, update and delete the mirror is modified and computeAndRender
   runs only in the step in which the handler's own write has succeeded, never
   while that write is pending. *)
C18_RenderAfterWrite == [][C18_Step]_vars

(* C18 witness: an update completed and put its record on the page while the
   request of another handler is still in flight *)
C18_Witness ==
    /\ last.res = "ok" /\ last.fn \in UpdateFns
    /\ \E r \in txStore : r.id = last.id /\ r \in MirrorSet
    /\ pending # <<>>

(* a step of refreshInfoPanel touches nothing of the ledger; the step in which a
   fetch fails ends the invocation inside its catch block with the unavailable
   text in #lastUpdate *)
C19_RefreshStep ==
    last'.fn = "refreshInfoPanel" =>
        /\ UNCHANGED <<stores, mirror, income, editId, view, pending>>
        /\ last'.res \in {"await", "ok", "caught"}
        /\ last'.res = "caught" =>
              /\ info'.status = "unavailable"
              /\ Len(info'.calls) = Len(info.calls) - 1

(* with a refresh in flight every request of the ledger that the database can
   complete does complete, and create, update and delete can be started *)
C19_NotBlocked ==
    info.calls # <<>> =>
        /\ \A i \in 1 .. Len(pending) :
              CanComplete(i) =>
                  ENABLED (onAddTxDone(i) \/ updateGetDone(i) \/ updatePutDone(i)
                              \/ deleteDone(i))
        /\ (Room /\ TxBudget) =>
              ENABLED (\E f \in InfoForms : onAddTx(f) \/ onAddExpense(f))
        /\ (Room /\ editId # 0) =>
              ENABLED (\E f \in InfoForms : updateTx(f) \/ updateExpense(f))
        /\ (Room /\ mirror # <<>>) =>
              ENABLED (\E id \in 1 .. MaxTx : deleteExpense(id))

(* C19: a failed fetch of refreshInfoPanel is caught inside it, puts the
   unavailable text in the status line and leaves store, mirror and the derived
   values unchanged; a refresh in flight never keeps a create, update or delete
   from proceeding. *)
C19_RefreshIsolated == [](C19_NotBlocked) /\ [][C19_RefreshStep]_vars

(* C19 witness: a fetch failed while a request of the ledger was in flight and a
   record was on the page; the status line says unavailable *)
C19_Witness ==
    /\ last.fn = "refreshInfoPanel" /\ last.res = "caught"
    /\ info.status = "unavailable"
    /\ pending # <<>> /\ mirror # <<>>

---------------------------------------------------------------------------
Urls == 1 .. Len(blobs.made)

TimersOf(u) == { t \in blobs.timers : t.url = u }

(* milliseconds since URL u was created *)
Age(u) == Elapsed(blobs.made[u], clock)

(* the URLs of the opens within the last minute *)
RecentOpens == { u \in Urls : Age(u) <= RevokeDelay }

(* an unreleased URL is at most a minute old, was never revoked and has exactly
   one timer, due a minute after its creation; no timer is left for a released
   URL; no URL is revoked twice; the unreleased URLs are among the opens of the
   last minute *)
C20_Scoped ==
    /\ \A u \in blobs.live :
          /\ u \in Urls
          /\ TimersOf(u) = { [url |-> u, due |-> After(blobs.made[u], RevokeDelay)] }
          /\ Age(u) <= RevokeDelay
          /\ blobs.revoked[u] = 0
    /\ \A t \in blobs.timers : t.url \in blobs.live
    /\ \A u \in Urls : blobs.revoked[u] <= 1
    /\ blobs.live \subseteq RecentOpens
    /\ Cardinality(blobs.live) <= Cardinality(RecentOpens)

(* a URL appears only in the step that completes a click on a receipt link, and
   goes only by revokeObjectURL of that URL, called by its timer one minute after
   the creation, or with the page when it is unloaded *)
C20_ReleaseStep ==
    /\ \A u \in blobs'.live \ blobs.live :
          /\ last' = Step("linkClick", "ok", u, 0)
          /\ u \notin Urls /\ blobs'.made[u] = clock
    /\ \A u \in blobs.live \ blobs'.live :
          \/ /\ last' = Step("revokeObjectURL", "ok", u, 0)
             /\ blobs.live \ blobs'.live = { u }
             /\ blobs'.revoked[u] = 1
             /\ Age(u) = RevokeDelay /\ clock' = clock
          \/ /\ last'.fn = "loadAll"
             /\ blobs'.live = {} /\ blobs'.timers = {}
    /\ \A u \in Urls : blobs'.revoked[u] # blobs.revoked[u] => u \in blobs.live \ blobs'.live

(* every URL created is released *)
C20_Released == \A u \in 1 .. MaxOpens : (u \in blobs.live) ~> (u \notin blobs.live)

(* C20: every blob URL the click handler of a receipt link creates is released:
   while the page stays loaded, by exactly one revokeObjectURL of that URL, one
   minute after its creation, so that the unreleased URLs are at most the opens
   of the last minute *)
C20_BlobReleased == [](C20_Scoped) /\ [][C20_ReleaseStep]_vars /\ C20_Released

(* a timer has just revoked its URL while a later one is still unreleased *)
C20_Witness ==
    /\ last.fn = "revokeObjectURL"
    /\ blobs.revoked[last.id] = 1
    /\ blobs.live # {}

---------------------------------------------------------------------------
(* the largest value among the points shown, at least 1 *)
ShownMax == MaxValue(view.chart)

TallestBar == CHOOSE h \in { view.bars[j] : j \in 1 .. Len(view.bars) } :
                  \A j \in 1 .. Len(view.bars) : view.bars[j] <= h

(* C21: each bar shown has height max(4, round(value / M * 100)) with M the
   largest value among the (at most 14) points shown, at least 1; so when older
   groups are cut off, a shown group with a value of 1 or more still reaches 100 *)
C21_BarHeights ==
    last.fn = "loadAll" =>
        /\ Len(view.bars) = Len(view.chart)
        /\ Len(view.bars) <= ChartPoints
        /\ \A j \in 1 .. Len(view.bars) :
              view.bars[j] = Max(MinBar, RoundDiv(view.chart[j][2] * 100, ShownMax))
        /\ (view.chart # <<>> /\ \E j \in 1 .. Len(view.chart) : view.chart[j][2] >= 1)
              => TallestBar = 100

---------------------------------------------------------------------------
(* the records of S other than the one with id X *)
Others(S, X) == { r \in S : r.id # X }

MirrorOthers(m, X) == SelectSeq(m, LAMBDA e : e.id # X)

(* the put of request req replaced the stored record of its id, leaving id and
   created as they were and the attachment list too unless files came with it *)
OnlyMutableFields(req) ==
    \E old \in txStore : \E new \in txStore' :
        /\ old.id = req.key /\ new.id = req.key
        /\ new.created = old.created
        /\ ~HasFiles(req.loc) => new.attachments = old.attachments

C22_Step ==
    (last'.fn \in UpdateFns /\ last'.res = "ok") =>
        \E i \in 1 .. Len(pending) :
            LET req == pending[i]
            IN  /\ req.pc = "put" /\ req.key = last'.id /\ pending' = Without(i)
                /\ OnlyMutableFields(req)
                /\ Cardinality(txStore') = Cardinality(txStore)
                /\ Len(mirror') = Len(mirror)
                /\ Others(txStore', req.key) = Others(txStore, req.key)
                /\ MirrorOthers(mirror', req.key) = MirrorOthers(mirror, req.key)

(* C22: a step that completes an update of record X leaves X's id and created
   timestamp, the attachment list unless new files were supplied, the number of
   records in store and mirror and every other record as they were *)
C22_UpdateFrame == [][C22_Step]_vars

---------------------------------------------------------------------------
(* requests on the record store made by an update or a delete *)
RecordOps == {"get", "put", "delete"}

FailedAt(i) ==
    /\ pending[i].fn \in UpdateFns \cup DeleteFns
    /\ pending[i].store = "records" /\ pending[i].op \in RecordOps
    /\ last' = Step(pending[i].fn, "StorageFault", 0, Len(pending[i].loc.refs))
    /\ pending' = Without(i)

C23_Step ==
    \A i \in 1 .. Len(pending) :
        FailedAt(i) =>
            /\ txStore' = txStore /\ txKeyGen' = txKeyGen
            /\ { r \in txStore' : r.id = pending[i].key } = { r \in txStore : r.id = pending[i].key }
            /\ mirror' = mirror
            /\ view' = view
            /\ UNCHANGED <<income, editId, attStore, attKeyGen, metaIncome>>

(* a handler that ended with a storage fault has ended: the fault is its last step *)
C23_Ended ==
    (last'.res = "StorageFault" /\ last'.fn \in UpdateFns \cup DeleteFns) =>
        /\ Len(pending') = Len(pending) - 1
        /\ \E i \in 1 .. Len(pending) : pending[i].fn = last'.fn /\ pending' = Without(i)

(* C23: when the get or put of an update, or the delete of a delete, fails with a
   storage fault, the handler ends with that error, the stored record and the
   mirror are as they were and the page is not rendered again *)
C23_FaultPropagates == [][C23_Step /\ C23_Ended]_vars

(* the get or the put of updateExpense has just failed; the record under edit is
   still stored and shown *)
C23_Witness ==
    /\ last.fn = "updateExpense" /\ last.res = "StorageFault"
    /\ editId \in Ids(txStore) /\ editId \in SeqIds(mirror)
    /\ pending = <<>>

====
